---- MODULE Spec2Model ----
(***************************************************************************)
(* A model of simple_ca: the Name -> distinguished-name builder (name.rs), *)
(* the certificate parameter factory (cert_params.rs), the tier-specific   *)
(* extension assembly and the builder/signer (certs.rs), the configuration *)
(* names (conf.rs) and the two commands load_ca / generate_server_cert     *)
(* (commands.rs) acting on the files of the configuration directory.       *)
(*                                                                         *)
(* Strings are TLA+ strings.  A Result is Ok(v), Err(e) (a returned error  *)
(* value) or Panic(m) (an unwrap()/overflow panic that unwinds the caller).*)
(* Naturals that do not fit TLC's integers (u64 nanoseconds, time_t) are   *)
(* kept as base-10^9 limbs, most significant first.                        *)
(***************************************************************************)
EXTENDS Integers, Sequences, FiniteSets, TLC

VARIABLES
    fs,        \* the configuration directory: path -> <<>> (absent) or <<pem>>
    conf,      \* the parsed content of the config file: <<>> (absent) or <<Conf>>
    clock,     \* the wall clock, an index into Instants
    nkeys,     \* the number of RSA keys generated so far (fresh key ids)
    last,      \* the outcome of the command that has just run, as its caller sees it
    call,      \* library level: the last library call and its arguments
    ret        \* library level: what that call returned

vars == <<fs, conf, clock, nkeys, last, call, ret>>

-----------------------------------------------------------------------------
(* Result values                                                           *)

Ok(v) == [tag |-> "Ok", val |-> v]
Err(e) == [tag |-> "Err", err |-> e]
Panic(m) == [tag |-> "Panic", msg |-> m]
IsOk(r) == r.tag = "Ok"

\* Option<T>: None is <<>>, Some(x) is <<x>>.
None == <<>>
Some(x) == <<x>>

-----------------------------------------------------------------------------
(* name.rs                                                                 *)

\* The struct Name { country, province, locality, org, org_unit, common_name }.
MkName(c, p, l, o, ou, cn) ==
    [country |-> c, province |-> p, locality |-> l, org |-> o,
     org_unit |-> ou, common_name |-> cn]

\* X509NameBuilder::append_entry_by_nid: the ASN.1 encoder takes a value whose
\* length is within the attribute's bounds (countryName is exactly two
\* characters) and rejects any other with an ErrorStack.
append_entry_by_nid(b, n, v) ==
    LET lo == IF n = "C" THEN 2 ELSE 1
        hi == CASE n = "C" -> 2
                [] n \in {"ST", "L"} -> 128
                [] OTHER -> 64
    IN  IF Len(v) >= lo /\ Len(v) <= hi
        THEN Ok(Append(b, [nid |-> n, data |-> v]))
        ELSE Err("ErrorStack")

\* macro append!: an entry is appended only for a non-empty value; the ? hands
\* an encoder error to the enclosing function.  b is the builder so far, or
\* the error that a previous append! returned.
append(b, n, v) ==
    IF ~IsOk(b) THEN b
    ELSE IF v # "" THEN append_entry_by_nid(b.val, n, v)
    ELSE b

\* Name::to_x509_name: the X509Name is the sequence of its entries.
to_x509_name(self) ==
    LET b0 == Ok(<<>>)
        b1 == append(b0, "C", self.country)
        b2 == append(b1, "ST", self.country)
        b3 == append(b2, "L", self.locality)
        b4 == append(b3, "O", self.org)
        b5 == append(b4, "OU", self.org_unit)
        b6 == append(b5, "CN", self.common_name)
    IN  b6

\* impl Clone for Name: every field is cloned from common_name.
clone(self) ==
    [common_name |-> self.common_name,
     country |-> self.common_name,
     province |-> self.common_name,
     locality |-> self.common_name,
     org |-> self.common_name,
     org_unit |-> self.common_name]

\* copy as it would be if it relied on clone for the other fields.
copy_by_clone(self, common_name) ==
    [clone(self) EXCEPT !.common_name = common_name]

\* Name::copy: clone, then each field assigned in turn.
copy(self, common_name) ==
    LET n0 == clone(self)
        n1 == [n0 EXCEPT !.country = self.country]
        n2 == [n1 EXCEPT !.province = self.province]
        n3 == [n2 EXCEPT !.locality = self.locality]
        n4 == [n3 EXCEPT !.org = self.org]
        n5 == [n4 EXCEPT !.org_unit = self.org_unit]
        n6 == [n5 EXCEPT !.common_name = common_name]
    IN  n6

\* X509NameRef::entries_by_nid: the entries with that nid, in order.
entries_by_nid(name, n) == SelectSeq(name, LAMBDA e : e.nid = n)

-----------------------------------------------------------------------------
(* Wall clock, time_t and u64 arithmetic                                   *)

\* cert_params.rs:12: nanoseconds per second, and the base of the limbs.
Billion == 1000000000

\* 2^64 = 18 446744073 709551616, as limbs <<hi, mid, lo>>.
TwoTo64 == <<18, 446744073, 709551616>>

\* Lexicographic order on limb sequences of equal length.
RECURSIVE LimbLess(_, _)
LimbLess(a, b) ==
    IF a = <<>> THEN FALSE
    ELSE IF Head(a) # Head(b) THEN Head(a) < Head(b)
    ELSE LimbLess(Tail(a), Tail(b))

\* a - b on three limbs, for a >= b.
LimbSub(a, b) ==
    LET l0 == a[3] - b[3]
        c0 == IF l0 < 0 THEN 1 ELSE 0
        l1 == a[2] - b[2] - c0
        c1 == IF l1 < 0 THEN 1 ELSE 0
    IN  <<a[1] - b[1] - c1, l1 + c1 * Billion, l0 + c0 * Billion>>

\* a + n on three limbs, for one limb n.
LimbAdd(a, n) ==
    LET l0 == a[3] + n
        c0 == IF l0 >= Billion THEN 1 ELSE 0
        l1 == a[2] + c0
        c1 == IF l1 >= Billion THEN 1 ELSE 0
    IN  <<a[1] + c1, l1 - c1 * Billion, l0 - c0 * Billion>>

\* The value modulo 2^64: what wrapping u64 arithmetic keeps.
RECURSIVE WrapU64(_)
WrapU64(a) == IF LimbLess(a, TwoTo64) THEN a ELSE WrapU64(LimbSub(a, TwoTo64))

\* The readings the wall clock takes, in increasing order: seconds since the
\* epoch as two limbs, and the nanoseconds within the second.
Instants ==
    << [secs |-> <<0, 0>>, nanos |-> 1000],
       [secs |-> <<0, 0>>, nanos |-> 10000],
       [secs |-> <<0, 0>>, nanos |-> 290448384],
       [secs |-> <<1, 762000000>>, nanos |-> 5],
       [secs |-> <<1, 762000000>>, nanos |-> 999999999],
       [secs |-> <<1, 762000001>>, nanos |-> 0],
       [secs |-> <<18, 446744073>>, nanos |-> 709551615],
       [secs |-> <<18, 446744074>>, nanos |-> 0] >>

\* Asn1Time::days_from_now(days) at clock reading t: the time_t of the reading
\* plus days * 86400 seconds, as two limbs.
days_from_now(t, days) ==
    LET s == t.secs
        l0 == s[2] + days * 60 * 60 * 24
        c0 == IF l0 >= Billion THEN 1 ELSE 0
    IN  <<s[1] + c0, l0 - c0 * Billion>>

-----------------------------------------------------------------------------
(* cert_params.rs                                                          *)

\* format!("{}", n) of one limb: its decimal digits, most significant first;
\* pad is the number of digits to produce (0: as many as the value needs).
RECURSIVE LimbDigits(_, _)
LimbDigits(n, pad) ==
    IF n = 0 /\ pad <= 0 THEN <<>>
    ELSE Append(LimbDigits(n \div 10, pad - 1), n % 10)

\* format!("{}", time) of a u64: decimal, no leading zeros ("0" for zero).
format_u64(a) ==
    LET d == IF a[1] # 0
               THEN LimbDigits(a[1], 0) \o LimbDigits(a[2], 9) \o LimbDigits(a[3], 9)
             ELSE IF a[2] # 0
               THEN LimbDigits(a[2], 0) \o LimbDigits(a[3], 9)
             ELSE LimbDigits(a[3], 0)
    IN  IF d = <<>> THEN <<0>> ELSE d

\* BigNum::from_dec_str: the number a digit string denotes, as three limbs.
RECURSIVE DigitsValue(_)
DigitsValue(d) ==
    IF d = <<>> THEN 0 ELSE 10 * DigitsValue(SubSeq(d, 1, Len(d) - 1)) + d[Len(d)]

from_dec_str(d) ==
    LET n == Len(d)
        lo == SubSeq(d, IF n > 9 THEN n - 8 ELSE 1, n)
        mid == IF n > 9 THEN SubSeq(d, IF n > 18 THEN n - 17 ELSE 1, n - 9) ELSE <<>>
        hi == IF n > 18 THEN SubSeq(d, 1, n - 18) ELSE <<>>
    IN  <<DigitsValue(hi), DigitsValue(mid), DigitsValue(lo)>>

\* BigNum::from_u32.
from_u32(n) == <<0, 0, n>>

\* create_serial_number as it would be without the subsec_nanos term.
create_serial_number_secs_only(now, checked) ==
    LET since_epoch == now
        prod == <<since_epoch.secs[1], since_epoch.secs[2], 0>>
        mulOverflows == ~LimbLess(prod, TwoTo64)
        time == WrapU64(prod)
    IN  IF checked /\ mulOverflows
        THEN Panic("attempt to multiply with overflow")
        ELSE Ok(from_dec_str(format_u64(time)))

\* create_serial_number at clock reading now.  checked says whether the build
\* checks integer overflow (debug profile: panic) or wraps (release profile).
create_serial_number(now, checked) ==
    LET since_epoch == now
        prod == <<since_epoch.secs[1], since_epoch.secs[2], 0>>
        mulOverflows == ~LimbLess(prod, TwoTo64)
        sum == LimbAdd(WrapU64(prod), since_epoch.nanos)
        addOverflows == ~LimbLess(sum, TwoTo64)
        time == WrapU64(sum)
    IN  IF checked /\ (mulOverflows \/ addOverflows)
        THEN Panic("attempt to multiply with overflow")
        ELSE Ok(from_dec_str(format_u64(time)))

\* struct Entity { name, pkey }.
Entity(name, pkey) == [name |-> name, pkey |-> pkey]

\* CertParams::valid_from, evaluated when the clock reads t.
valid_from(self, t) == days_from_now(t, 0)

\* CertParams::valid_to, evaluated when the clock reads t.
valid_to(self, t) == days_from_now(t, self.valid)

\* CertParams::subject.
subject(self) == self.subject

\* issuer() as it would be if the explicit issuer were ignored.
issuer_is_subject(self) == subject(self)

\* CertParams::issuer: self.issuer.as_ref().unwrap_or(self.subject()).
issuer(self) == IF self.issuer # None THEN self.issuer[1] ELSE subject(self)

\* CertParams::serial.
serial(self) == self.serial

\* CertParams::root_ca_params.
root_ca_params(name, pkey, valid) ==
    LET subj == Entity(name, pkey)
    IN  Ok([subject |-> subj,
            issuer |-> None,
            valid |-> valid,
            serial |-> from_u32(1000),
            sub_alt_names |-> <<>>])

\* intermediate_ca_params as it would be with the root's serial pasted in.
intermediate_ca_params_root_serial(name, pkey, root_name, root_pkey, valid) ==
    LET subj == Entity(name, pkey)
        iss == Entity(root_name, root_pkey)
    IN  Ok([subject |-> subj,
            issuer |-> Some(iss),
            valid |-> valid,
            serial |-> from_u32(1000),
            sub_alt_names |-> <<>>])

\* CertParams::intermediate_ca_params.
intermediate_ca_params(name, pkey, root_name, root_pkey, valid) ==
    LET subj == Entity(name, pkey)
        iss == Entity(root_name, root_pkey)
    IN  Ok([subject |-> subj,
            issuer |-> Some(iss),
            valid |-> valid,
            serial |-> from_u32(10000),
            sub_alt_names |-> <<>>])

\* push(x) in the place of insert(0, x).
insert_last(v, x) == v \o <<x>>

\* Vec::insert(0, x).
insert_first(v, x) == <<x>> \o v

\* CertParams::server_cert_params, called when the clock reads now.
server_cert_params(name, pkey, issuer_name, issuer_pkey, valid, sub_alt_names, now, checked) ==
    LET cns == entries_by_nid(name, "CN")
        subj == Entity(name, pkey)
        iss == Entity(issuer_name, issuer_pkey)
        sn == create_serial_number(now, checked)
    IN  IF cns = <<>> THEN Panic("called Option::unwrap() on a None value")
        ELSE IF ~IsOk(sn) THEN sn
        ELSE Ok([subject |-> subj,
                 issuer |-> Some(iss),
                 valid |-> valid,
                 serial |-> sn.val,
                 sub_alt_names |-> insert_first(sub_alt_names, Head(cns).data)])

-----------------------------------------------------------------------------
(* certs.rs                                                                *)

\* The public half of a private key.
public_key(pkey) == [id |-> pkey.id, bits |-> pkey.bits]

\* The extension of a certificate with the given nid, as an Option.
get_ext(cert, n) ==
    LET found == SelectSeq(cert.extensions, LAMBDA e : e.nid = n)
    IN  IF found = <<>> THEN None ELSE Some(Head(found))

\* extension::SubjectKeyIdentifier::new().build(ctx): the hash of the public
\* key of the certificate being built.
SubjectKeyIdentifier(builder) ==
    Ok([nid |-> "subjectKeyIdentifier", critical |-> FALSE,
        value |-> [hash |-> builder.pubkey.id]])

\* extension::AuthorityKeyIdentifier::new().keyid(true)[.issuer(true)].build(ctx):
\* the key identifier is the subject-key-identifier of the context's issuer
\* certificate (an error when it has none); with issuer, that certificate's
\* issuer name and serial as well.
AuthorityKeyIdentifier(ctx_issuer, with_issuer) ==
    LET ski == get_ext(ctx_issuer, "subjectKeyIdentifier")
    IN  IF ski = None THEN Err("ErrorStack")
        ELSE Ok([nid |-> "authorityKeyIdentifier", critical |-> FALSE,
                 value |-> [keyid |-> ski[1].value.hash,
                            issuer |-> IF with_issuer
                                       THEN Some([name |-> ctx_issuer.issuer_name,
                                                  serial |-> ctx_issuer.serial])
                                       ELSE None]])

\* BasicConstraints as it would be if .ca() were called on every path.
BasicConstraints_always_ca(critical, ca) ==
    [nid |-> "basicConstraints", critical |-> critical,
     value |-> [ca |-> TRUE, pathlen |-> None]]

\* extension::BasicConstraints::new()[.critical()][.ca()].build().
BasicConstraints(critical, ca) ==
    [nid |-> "basicConstraints", critical |-> critical,
     value |-> [ca |-> ca, pathlen |-> None]]

\* extension::KeyUsage::new()....build().
KeyUsage(bits) == [nid |-> "keyUsage", critical |-> FALSE, value |-> bits]

\* extension::ExtendedKeyUsage::new().server_auth().build().
ExtendedKeyUsage(purposes) ==
    [nid |-> "extendedKeyUsage", critical |-> FALSE, value |-> purposes]

\* X509Extension::new_nid(None, None, nid, value).
new_nid(n, v) == [nid |-> n, critical |-> FALSE, value |-> v]

\* extension::SubjectAlternativeName::new() with dns(name) for each name.
SubjectAlternativeName(names) ==
    [nid |-> "subjectAltName", critical |-> FALSE,
     value |-> [i \in 1..Len(names) |-> [dns |-> names[i]]]]

\* The closure create_root_ca passes for the temporary certificate.
root_draft_ext(builder) ==
    LET sub_key_id == SubjectKeyIdentifier(builder)
    IN  Ok(<<sub_key_id.val>>)

\* The closure create_root_ca passes for the final certificate; cert is the
\* temporary certificate, the context's issuer.
root_final_ext(builder, cert) ==
    LET sub_key_id == SubjectKeyIdentifier(builder)
        auth_key_id == AuthorityKeyIdentifier(cert, FALSE)
        bc == BasicConstraints(TRUE, TRUE)
        key_usage == KeyUsage(<<"digitalSignature", "keyCertSign", "cRLSign">>)
    IN  IF ~IsOk(auth_key_id) THEN auth_key_id
        ELSE Ok(<<sub_key_id.val, auth_key_id.val, bc, key_usage>>)

\* The closure of create_intermediate_ca.
intermediate_ext(builder, root_ca_cert) ==
    LET sub_key_id == SubjectKeyIdentifier(builder)
        auth_key_id == AuthorityKeyIdentifier(root_ca_cert, TRUE)
        bc == BasicConstraints(FALSE, TRUE)
        key_usage == KeyUsage(<<"digitalSignature", "keyCertSign", "cRLSign">>)
    IN  IF ~IsOk(auth_key_id) THEN auth_key_id
        ELSE Ok(<<sub_key_id.val, auth_key_id.val, bc, key_usage>>)

\* The closure of create_server_cert.
server_ext(builder, params, intermediate_cert) ==
    LET sub_key_id == SubjectKeyIdentifier(builder)
        auth_key_id == AuthorityKeyIdentifier(intermediate_cert, TRUE)
        bc == BasicConstraints(FALSE, FALSE)
        key_usage == KeyUsage(<<"digitalSignature", "nonRepudiation", "keyEncipherment">>)
        extended_key_usage == ExtendedKeyUsage(<<"serverAuth">>)
        netscape_cert_type == new_nid("nsCertType", "SSL Server")
        netscape_comment ==
            new_nid("nsComment", "Simple CA Generated Server Certificate")
        v3_extensions ==
            <<sub_key_id.val, auth_key_id.val, bc, netscape_cert_type,
              netscape_comment, key_usage, extended_key_usage>>
    IN  IF ~IsOk(auth_key_id) THEN auth_key_id
        ELSE IF Len(params.sub_alt_names) > 0
        THEN Ok(Append(v3_extensions, SubjectAlternativeName(params.sub_alt_names)))
        ELSE Ok(v3_extensions)

\* The call of the closure ext that create_cert was given: ext names the
\* closure and carries what it captured.
call_ext(ext, builder, params) ==
    CASE ext.closure = "root_draft" -> root_draft_ext(builder)
      [] ext.closure = "root_final" -> root_final_ext(builder, ext.cert)
      [] ext.closure = "intermediate" -> intermediate_ext(builder, ext.cert)
      [] ext.closure = "server" -> server_ext(builder, params, ext.cert)

\* The X509Builder of create_cert after its setters.  env is what the build
\* meets: the clock readings t1 and t2 at the calls of valid_from and
\* valid_to, and whether the library fails one of the builder's steps.
X509Builder(params, env) ==
    [version |-> 2,
     serial |-> serial(params),
     not_before |-> valid_from(params, Instants[env.t1]),
     not_after |-> valid_to(params, Instants[env.t2]),
     subject_name |-> subject(params).name,
     pubkey |-> public_key(subject(params).pkey),
     issuer_name |-> issuer(params).name]

\* append_extension of each of extensions, what ext(&builder)? gave, then
\* builder.sign(&issuer.pkey, MessageDigest::sha256())? and builder.build().
sign(builder, extensions, iss, failed) ==
    IF failed THEN Err("ErrorStack")
    ELSE IF ~IsOk(extensions) THEN extensions
    ELSE Ok([version |-> builder.version,
             serial |-> builder.serial,
             not_before |-> builder.not_before,
             not_after |-> builder.not_after,
             subject_name |-> builder.subject_name,
             pubkey |-> builder.pubkey,
             issuer_name |-> builder.issuer_name,
             extensions |-> extensions.val,
             signature |-> [signer |-> iss.pkey.id, digest |-> "sha256"]])

\* create_cert from the call of ext on.
create_cert_ext(params, ext, env, builder) ==
    sign(builder, call_ext(ext, builder, params), issuer(params), env.fail)

\* create_cert.
create_cert(params, ext, env) ==
    create_cert_ext(params, ext, env, X509Builder(params, env))

\* The context of the second closure of create_root_ca: the temporary
\* certificate.
root_final(cert) == [closure |-> "root_final", cert |-> cert]

\* create_root_ca from the ? on the temporary certificate on; cert is what
\* the first create_cert returned.
create_root_ca_final(params, cert, env) ==
    IF ~IsOk(cert) THEN << [ext |-> [closure |-> "root_draft"], res |-> cert] >>
    ELSE << [ext |-> [closure |-> "root_draft"], res |-> cert],
            [ext |-> root_final(cert.val),
             res |-> create_cert(params, root_final(cert.val), env)] >>

\* The calls of create_cert that create_root_ca makes, in order, each with
\* its result: the temporary certificate, then (the ? passed) the final one
\* built with the temporary one as context.  envs are the two builds'
\* environments.
create_root_ca_builds(params, envs) ==
    create_root_ca_final(params, create_cert(params, [closure |-> "root_draft"], envs[1]),
                         envs[2])

\* The last element of a sequence.
Last(q) == q[Len(q)]

\* create_root_ca as it would be if it returned the temporary certificate.
create_root_ca_returns_draft(params, envs) ==
    create_root_ca_builds(params, envs)[1].res

\* create_root_ca: what the last of its builds returned.
create_root_ca(params, envs) == Last(create_root_ca_builds(params, envs)).res

\* create_intermediate_ca.
create_intermediate_ca(params, root_ca_cert, env) ==
    create_cert(params, [closure |-> "intermediate", cert |-> root_ca_cert], env)

\* create_server_cert.
create_server_cert(params, intermediate_cert, env) ==
    create_cert(params, [closure |-> "server", cert |-> intermediate_cert], env)

\* Signature verification of cert under a public key.
verifies(cert, pubkey) == cert.signature.signer = pubkey.id

-----------------------------------------------------------------------------
(* conf.rs                                                                 *)

\* opt_value.
opt_value(opt, default) == IF opt # None THEN opt[1] ELSE default

\* CertAuthConf::default and Conf::default.
CertAuthConf_default ==
    [country |-> None, state_or_province |-> None, locality |-> None,
     organization |-> Some("Simple CA"), organization_unit |-> None]

Conf_default == [ca |-> Some(CertAuthConf_default)]

\* CertAuthConf::ca_name.
ca_name(self) ==
    LET org == opt_value(self.organization, "Simple CA")
    IN  [country |-> opt_value(self.country, ""),
         province |-> opt_value(self.state_or_province, ""),
         locality |-> opt_value(self.locality, ""),
         org |-> opt_value(self.organization, ""),
         org_unit |-> opt_value(self.organization_unit, ""),
         common_name |-> org \o " Root CA"]

\* CertAuthConf::intermediate_name.
intermediate_name(self) ==
    LET ca_name_ == ca_name(self)
    IN  copy(ca_name_, ca_name_.org \o " Intermediate CA")

\* The domains a server certificate is asked for, each with what the string
\* functions of reversed_domain find in it: whether it parses as a socket
\* address, its labels between the dots up to the first colon, and the rest
\* from that colon on.
DomainParts ==
    [d \in {"a.com", "ca", ""} |->
        CASE d = "a.com" -> [addr |-> FALSE, labels |-> <<"a", "com">>, port |-> ""]
          [] d = "ca" -> [addr |-> FALSE, labels |-> <<"ca">>, port |-> ""]
          [] d = "" -> [addr |-> FALSE, labels |-> <<"">>, port |-> ""]]

Domains == DOMAIN DomainParts

\* The labels in reverse order, joined with dots.
RECURSIVE rev_join(_)
rev_join(labels) ==
    IF Len(labels) = 1 THEN labels[1]
    ELSE rev_join(Tail(labels)) \o "." \o Head(labels)

\* reversed_domain.
reversed_domain(domain) ==
    LET p == DomainParts[domain]
    IN  IF p.addr THEN domain ELSE rev_join(p.labels) \o p.port

\* file_name_getter! and the two server path functions, relative to the
\* configuration directory.
ca_key == "ca.key.pem"
ca_cert == "ca.cert.pem"
intermediate_key == "intermediate.key.pem"
intermediate_cert == "intermediate.cert.pem"
server_key(domain) == reversed_domain(domain) \o ".key.pem"
server_cert(domain) == reversed_domain(domain) \o ".cert.pem"

\* Every path of the configuration directory the commands touch.
Paths ==
    {ca_key, ca_cert, intermediate_key, intermediate_cert}
        \cup {server_key(d) : d \in Domains} \cup {server_cert(d) : d \in Domains}

\* Conf::load on the config file cf (an Option): a missing file is created
\* with the defaults.  Returns the Conf and the file as it is afterwards.
Conf_load(cf, fail) ==
    IF fail THEN [res |-> Err("io::Error"), file |-> cf]
    ELSE IF cf # None THEN [res |-> Ok(cf[1]), file |-> cf]
    ELSE [res |-> Ok(Conf_default), file |-> Some(Conf_default)]

\* Conf::ca: self.ca.as_ref().unwrap().
Conf_ca(self) ==
    IF self.ca # None THEN Ok(self.ca[1])
    ELSE Panic("called Option::unwrap() on a None value")

-----------------------------------------------------------------------------
(* lib.rs and commands.rs                                                  *)

\* PEM encodings: the label of the block and what it encodes.
private_key_to_pem_pkcs8(pkey) == [label |-> "PRIVATE KEY", der |-> pkey]
to_pem(x509) == [label |-> "CERTIFICATE", der |-> x509]

\* What a file holds after File::create truncated it and write_all failed.
Truncated == [label |-> "", der |-> <<>>]

\* PKey::private_key_from_pem and X509::from_pem.
private_key_from_pem(pem) ==
    IF pem.label = "PRIVATE KEY" THEN Ok(pem.der) ELSE Err("ErrorStack")
from_pem(pem) ==
    IF pem.label = "CERTIFICATE" THEN Ok(pem.der) ELSE Err("ErrorStack")

\* Path::exists.
exists(files, path) == files[path] # None

\* read_file.
read_file(files, path) ==
    IF exists(files, path) THEN Ok(files[path][1]) ELSE Err("io::Error")

\* The local variables of load_ca and generate_server_cert, before their
\* lets.
Locals ==
    [k \in {"conf", "ca_pkey", "ca_name", "ca_params", "ca", "intermediate_pkey",
            "intermediate_name", "intermediate_params", "intermediate",
            "name", "pkey", "loaded", "params", "cert"} |-> None]

\* The state a command runs in: the files, the config file, the keys
\* generated, the paths written so far, and out: None while the command runs,
\* Some(result) once a ? or a panic has ended it.  val is the value of the
\* step just taken and loc the local variables bound so far.
Run(files, cf, n) ==
    [fs |-> files, conf |-> cf, nkeys |-> n, wrote |-> <<>>, built |-> <<>>,
     out |-> None, val |-> None, loc |-> Locals]

Running(st) == st.out = None
Abort(st, r) == [st EXCEPT !.out = Some(r)]
Value(st, v) == [st EXCEPT !.val = Some(v)]

\* Where the environment can fail a command (an I/O error, a library error),
\* in the order the steps run.
FailPoints ==
    {"none", "conf", "ca_pkey", "ca_key_file", "root_draft", "root_final",
     "ca_cert_save", "ca_cert_file", "int_pkey", "int_key_file", "int_cert",
     "int_cert_save", "int_cert_file",
     "srv_pkey", "srv_key_file", "srv_cert", "srv_cert_file"}

FilePoints ==
    {"ca_key_file", "ca_cert_save", "ca_cert_file", "int_key_file",
     "int_cert_save", "int_cert_file", "srv_key_file", "srv_cert_file"}

\* macro write_file! and save_file: File::create(dest).unwrap(), then
\* write_all(content)?.  A failing create panics and leaves the file alone; a
\* failing write_all returns the error and leaves the truncated file.
save_file(st, content, dest, failed, how) ==
    IF ~Running(st) THEN st
    ELSE IF failed /\ how = "create"
        THEN Abort(st, Panic("called Result::unwrap() on an Err value"))
    ELSE IF failed
        THEN Abort([st EXCEPT !.fs[dest] = Some(Truncated)], Err("io::Error"))
    ELSE [st EXCEPT !.fs[dest] = Some(content), !.wrote = Append(@, dest)]

write_file(st, content, dest, failed, how) == save_file(st, content, dest, failed, how)

\* get_pkey: a fresh RSA key, or the key read from path.
get_pkey(st, generate, path, bits, failed) ==
    IF ~Running(st) THEN st
    ELSE IF failed THEN Abort(st, Err(IF generate THEN "ErrorStack" ELSE "io::Error"))
    ELSE IF generate
        THEN Value([st EXCEPT !.nkeys = @ + 1], [id |-> st.nkeys + 1, bits |-> bits])
    ELSE LET pem == read_file(st.fs, path)
             pkey == IF IsOk(pem) THEN private_key_from_pem(pem.val) ELSE pem
         IN  IF IsOk(pkey) THEN Value(st, pkey.val) ELSE Abort(st, pkey)

\* get_x509: the certificate create returned, saved; or the one read from
\* path.  created is the result of the call create(), for generate.
get_x509(st, generate, path, created, failed, how) ==
    IF ~Running(st) THEN st
    ELSE IF generate
        THEN IF ~IsOk(created) THEN Abort(st, created)
             ELSE Value(save_file(st, to_pem(created.val), path, failed, how), created.val)
    ELSE LET pem == read_file(st.fs, path)
             x509 == IF IsOk(pem) THEN from_pem(pem.val) ELSE pem
         IN  IF IsOk(x509) THEN Value(st, x509.val) ELSE Abort(st, x509)

\* A step that only computes: r is its Result.
Try(st, r) ==
    IF ~Running(st) THEN st
    ELSE IF IsOk(r) THEN Value(st, r.val) ELSE Abort(st, r)

\* The value of a step, for the steps after it (of no use once out is set).
Val(st) == IF st.val # None THEN st.val[1] ELSE None

\* load_ca's two flags: the root pair is created on reset or when one of its
\* files is missing, and the intermediate pair whenever the root pair is, or
\* when one of its own files is missing.
ca_create(files, reset) ==
    reset \/ ~exists(files, ca_key) \/ ~exists(files, ca_cert)

\* intermediate_create as it would be if the intermediate pair were created
\* only when one of its own files is missing.
intermediate_create_own_files_only(files, reset) ==
    ~exists(files, intermediate_key) \/ ~exists(files, intermediate_cert)

intermediate_create(files, reset) ==
    IF reset \/ ~exists(files, ca_key) \/ ~exists(files, ca_cert) THEN TRUE
    ELSE IF ~exists(files, intermediate_key) \/ ~exists(files, intermediate_cert) THEN TRUE
    ELSE FALSE

\* let k = the value of the step that led to st.
Let(st, k) == IF Running(st) THEN [st EXCEPT !.loc[k] = Val(st)] ELSE st

\* Conf::load()?, c0 being what Conf::load did.
conf_loaded(st, c0) == Try([st EXCEPT !.conf = c0.file], c0.res)

\* write_file! of the key the step before got, when it was generated.
write_pkey(st, generate, path, failed, how) ==
    IF generate /\ Running(st)
    THEN write_file(st, private_key_to_pem_pkcs8(Val(st)), path, failed, how)
    ELSE st

\* write_file! of the certificate the step before got, when it was created.
write_x509(st, generate, path, failed, how) ==
    IF generate /\ Running(st)
    THEN write_file(st, to_pem(Val(st)), path, failed, how)
    ELSE st

\* The clock readings and failures the two builds of create_root_ca meet.
root_envs(env) ==
    << [t1 |-> env.t[1], t2 |-> env.t[2], fail |-> env.fail = "root_draft"],
       [t1 |-> env.t[3], t2 |-> env.t[4], fail |-> env.fail = "root_final"] >>

\* The closure || create_root_ca(&ca_params), called: its builds are logged.
call_create_root_ca(st, generate, env) ==
    IF generate
    THEN [st EXCEPT !.built = @ \o create_root_ca_builds(st.loc.ca_params, root_envs(env))]
    ELSE st

\* The closure || create_intermediate_ca(&intermediate_params, &ca), called.
call_create_intermediate_ca(st, generate, inter) ==
    IF generate
    THEN [st EXCEPT !.built = Append(@,
            [ext |-> [closure |-> "intermediate", cert |-> st.loc.ca], res |-> inter])]
    ELSE st

\* let conf = Conf::load()?;
load_ca_conf(st, env) ==
    Let(conf_loaded(st, Conf_load(st.conf, env.fail = "conf")), "conf")

\* let ca_pkey = get_pkey(ca_create, ..)?; if ca_create { write_file!(..) }
load_ca_ca_pkey(st, ca_create_, env) ==
    Let(write_pkey(get_pkey(st, ca_create_, ca_key, 4096, env.fail = "ca_pkey"),
                   ca_create_, ca_key, env.fail = "ca_key_file", env.how),
        "ca_pkey")

\* let ca_name = conf.ca().ca_name().to_x509_name()?;
load_ca_ca_name(st) ==
    IF ~Running(st) THEN st
    ELSE IF ~IsOk(Conf_ca(st.loc.conf)) THEN Abort(st, Conf_ca(st.loc.conf))
    ELSE Let(Try(st, to_x509_name(ca_name(Conf_ca(st.loc.conf).val))), "ca_name")

\* let ca_params = CertParams::root_ca_params(&ca_name, &ca_pkey, 7200)?;
load_ca_ca_params(st) ==
    IF ~Running(st) THEN st
    ELSE Let(Try(st, root_ca_params(st.loc.ca_name, st.loc.ca_pkey, 7200)), "ca_params")

\* let ca = get_x509(ca_create, .., || create_root_ca(&ca_params))?;
\* if ca_create { write_file!(..) }
load_ca_ca(st, ca_create_, env) ==
    IF ~Running(st) THEN st
    ELSE Let(write_x509(get_x509(call_create_root_ca(st, ca_create_, env),
                                 ca_create_, ca_cert,
                                 IF ca_create_
                                 THEN create_root_ca(st.loc.ca_params, root_envs(env))
                                 ELSE None,
                                 env.fail = "ca_cert_save", env.how),
                        ca_create_, ca_cert, env.fail = "ca_cert_file", env.how),
             "ca")

\* let intermediate_pkey = get_pkey(intermediate_create, ..)?;
load_ca_intermediate_pkey(st, intermediate_create_, env) ==
    Let(get_pkey(st, intermediate_create_, intermediate_key, 4096, env.fail = "int_pkey"),
        "intermediate_pkey")

\* let intermediate_name = conf.ca().intermediate_name().to_x509_name()?;
load_ca_intermediate_name(st) ==
    IF ~Running(st) THEN st
    ELSE Let(Try(st, to_x509_name(intermediate_name(Conf_ca(st.loc.conf).val))),
             "intermediate_name")

\* if intermediate_create { write_file!(&intermediate_pkey..) }
load_ca_intermediate_key_file(st, intermediate_create_, env) ==
    IF intermediate_create_ /\ Running(st)
    THEN write_file(st, private_key_to_pem_pkcs8(st.loc.intermediate_pkey),
                    intermediate_key, env.fail = "int_key_file", env.how)
    ELSE st

\* let intermediate_params = CertParams::intermediate_ca_params(..)?;
load_ca_intermediate_params(st) ==
    IF ~Running(st) THEN st
    ELSE Let(Try(st, intermediate_ca_params(st.loc.intermediate_name,
                                            st.loc.intermediate_pkey,
                                            st.loc.ca_name, st.loc.ca_pkey, 3600)),
             "intermediate_params")

\* The call create_intermediate_ca(&intermediate_params, &ca) of the closure.
load_ca_create_intermediate_ca(st, env) ==
    create_intermediate_ca(st.loc.intermediate_params, st.loc.ca,
        [t1 |-> env.t[5], t2 |-> env.t[6], fail |-> env.fail = "int_cert"])

\* The steps of get_x509 for the intermediate, inter being what the closure
\* returns when called.
load_ca_get_intermediate(st, intermediate_create_, inter, env) ==
    Let(write_x509(get_x509(call_create_intermediate_ca(st, intermediate_create_, inter),
                            intermediate_create_, intermediate_cert, inter,
                            env.fail = "int_cert_save", env.how),
                   intermediate_create_, intermediate_cert,
                   env.fail = "int_cert_file", env.how),
        "intermediate")

\* let intermediate = get_x509(intermediate_create, .., || create_intermediate_ca(..))?;
\* if intermediate_create { write_file!(..) }
load_ca_intermediate(st, intermediate_create_, env) ==
    IF ~Running(st) THEN st
    ELSE load_ca_get_intermediate(st, intermediate_create_,
             IF intermediate_create_ THEN load_ca_create_intermediate_ca(st, env) ELSE None,
             env)

\* Ok((intermediate, intermediate_pkey, intermediate_name))
load_ca_return(st) ==
    IF Running(st)
    THEN Abort(st, Ok([cert |-> st.loc.intermediate, pkey |-> st.loc.intermediate_pkey,
                       name |-> st.loc.intermediate_name]))
    ELSE st

\* load_ca, from the state st0.  env: fail, the point where the environment
\* fails (how: the create or the write of a file); t, the clock readings of
\* the six calls of valid_from / valid_to.
load_ca(st0, reset, env) ==
    LET s1 == load_ca_conf(st0, env)
        s2 == load_ca_ca_pkey(s1, ca_create(st0.fs, reset), env)
        s3 == load_ca_ca_name(s2)
        s4 == load_ca_ca_params(s3)
        s5 == load_ca_ca(s4, ca_create(st0.fs, reset), env)
        s6 == load_ca_intermediate_pkey(s5, intermediate_create(st0.fs, reset), env)
        s7 == load_ca_intermediate_name(s6)
        s8 == load_ca_intermediate_key_file(s7, intermediate_create(st0.fs, reset), env)
        s9 == load_ca_intermediate_params(s8)
        s10 == load_ca_intermediate(s9, intermediate_create(st0.fs, reset), env)
    IN  load_ca_return(s10)

\* let name = name.to_x509_name()?;
generate_server_cert_name(st, name) == Let(Try(st, to_x509_name(name)), "name")

\* let pkey = get_pkey(true, &server_key_path, 2048)?; write_file!(..)
generate_server_cert_pkey(st, server_key_path, env) ==
    Let(write_pkey(get_pkey(st, TRUE, server_key_path, 2048, env.fail = "srv_pkey"),
                   TRUE, server_key_path, env.fail = "srv_key_file", env.how),
        "pkey")

\* The ? and the let of let (ca, ca_pkey, ca_name) = load_ca(false, verbose)?,
\* st being where load_ca ended.
generate_server_cert_loaded(st) ==
    IF IsOk(st.out[1])
    THEN [st EXCEPT !.out = None, !.loc.loaded = st.out[1].val]
    ELSE st

\* let (ca, ca_pkey, ca_name) = load_ca(false, verbose)?;
generate_server_cert_load_ca(st, env) ==
    IF ~Running(st) THEN st
    ELSE generate_server_cert_loaded(load_ca(st, FALSE, env))

\* let params = CertParams::server_cert_params(..)?;
generate_server_cert_params(st, alt_names, env) ==
    IF ~Running(st) THEN st
    ELSE Let(Try(st, server_cert_params(st.loc.name, st.loc.pkey, st.loc.loaded.name,
                                        st.loc.loaded.pkey, 370, alt_names,
                                        Instants[env.t[7]], env.checked)),
             "params")

\* The ? and the let of let cert = create_server_cert(..)?, leaf being what
\* create_server_cert returned.
generate_server_cert_built(st, leaf) ==
    Let(Try([st EXCEPT !.built = Append(@,
                [ext |-> [closure |-> "server", cert |-> st.loc.loaded.cert],
                 res |-> leaf])],
            leaf),
        "cert")

\* let cert = create_server_cert(&params, &ca)?;
generate_server_cert_cert(st, env) ==
    IF ~Running(st) THEN st
    ELSE generate_server_cert_built(st,
             create_server_cert(st.loc.params, st.loc.loaded.cert,
                 [t1 |-> env.t[8], t2 |-> env.t[9], fail |-> env.fail = "srv_cert"]))

\* write_file!(&cert.to_pem()?, &cert_path, ..); Ok(())
generate_server_cert_cert_file(st, cert_path, env) ==
    IF ~Running(st) THEN st
    ELSE write_file(st, to_pem(st.loc.cert), cert_path, env.fail = "srv_cert_file", env.how)

\* Ok(())
generate_server_cert_return(st) == IF Running(st) THEN Abort(st, Ok(<<>>)) ELSE st

\* generate_server_cert, from the state st0.  env as for load_ca, with t[7]
\* the clock reading of create_serial_number and t[8], t[9] those of the
\* leaf's valid_from / valid_to; checked: the build checks integer overflow.
generate_server_cert(st0, name, alt_names, env) ==
    LET s1 == generate_server_cert_name(st0, name)
        s2 == generate_server_cert_pkey(s1, server_key(name.common_name), env)
        s3 == generate_server_cert_load_ca(s2, env)
        s4 == generate_server_cert_params(s3, alt_names, env)
        s5 == generate_server_cert_cert(s4, env)
        s6 == generate_server_cert_cert_file(s5, server_cert(name.common_name), env)
    IN  generate_server_cert_return(s6)

-----------------------------------------------------------------------------
(* The commands and their environment                                      *)

\* The keys the model lets the commands generate, and the clock readings
\* (a prefix of Instants) the commands run at.
MaxKeys == 4
MaxClock == 2

\* The config files the user may have written.
ConfFiles ==
    { Conf_default,
      [ca |-> Some([country |-> Some("AU"), state_or_province |-> Some("TAS"),
                    locality |-> None, organization |-> Some("Acme"),
                    organization_unit |-> None])] }

\* What main() builds a Name from for the server command.
ServerNames ==
    { MkName("", "", "", "", "", "a.com"),
      MkName("AU", "TAS", "", "Acme", "", "ca"),
      MkName("", "", "", "", "", "") }

ServerAltNames == { <<"www.a.com">> }

\* The clock readings of a command that runs while the clock reads c.
Readings(c) == [i \in 1..9 |-> c]

\* The environments of a command that runs while the clock reads c and can
\* fail at the points pts: how a file fails matters at a file only.
Envs(c, pts) ==
    { [fail |-> p, how |-> h, t |-> Readings(c), checked |-> FALSE] :
        p \in pts \ FilePoints, h \in {"write"} }
    \cup
    { [fail |-> p, how |-> h, t |-> Readings(c), checked |-> FALSE] :
        p \in pts \cap FilePoints, h \in {"create", "write"} }

\* The environment that fails nothing.
NoFail(c) == [fail |-> "none", how |-> "write", t |-> Readings(c), checked |-> FALSE]

\* The points of load_ca, and those of generate_server_cert outside its call
\* of load_ca.
SrvPoints == {"none", "srv_pkey", "srv_key_file", "srv_cert", "srv_cert_file"}
CaPoints == (FailPoints \ SrvPoints) \cup {"none"}

NoCommand == [cmd |-> "none", out |-> None, wrote |-> <<>>, built |-> <<>>]

Init ==
    /\ fs = [p \in Paths |-> None]
    /\ conf = None
    /\ clock = 1
    /\ nkeys = 0
    /\ last = NoCommand
    /\ call = [op |-> "none"]
    /\ ret = None

\* The effect of a command that ran from Run(fs, conf, nkeys) to st.
Finish(st, cmd, env) ==
    /\ st.nkeys <= MaxKeys
    /\ fs' = st.fs
    /\ conf' = st.conf
    /\ nkeys' = st.nkeys
    /\ clock' = env.t[9]
    /\ last' = [cmd EXCEPT !.out = st.out, !.wrote = st.wrote, !.built = st.built]
    /\ UNCHANGED <<call, ret>>

\* The ca command of main(), load_ca(true), and load_ca(false) of a caller
\* of the library.
LoadCa(reset, env) ==
    Finish(load_ca(Run(fs, conf, nkeys), reset, env),
           [NoCommand EXCEPT !.cmd = IF reset THEN "load_ca(true)" ELSE "load_ca(false)"],
           env)

\* The server command of main().
GenerateServerCert(name, alt_names, env) ==
    Finish(generate_server_cert(Run(fs, conf, nkeys), name, alt_names, env),
           [cmd |-> "generate_server_cert", name |-> name, alt_names |-> alt_names,
            out |-> None, wrote |-> <<>>, built |-> <<>>],
           env)

\* The user removes a file of the configuration directory.
RemoveFile(p) ==
    /\ p \in {ca_key, ca_cert, intermediate_key, intermediate_cert}
    /\ exists(fs, p)
    /\ fs' = [fs EXCEPT ![p] = None]
    /\ last' = NoCommand
    /\ UNCHANGED <<conf, clock, nkeys, call, ret>>

\* The user edits the config file.
EditConf(c) ==
    /\ conf # Some(c)
    /\ conf' = Some(c)
    /\ last' = NoCommand
    /\ UNCHANGED <<fs, clock, nkeys, call, ret>>

\* Time passes between two commands.
Tick ==
    /\ clock < MaxClock
    /\ clock' = clock + 1
    /\ last' = NoCommand
    /\ UNCHANGED <<fs, conf, nkeys, call, ret>>

\* The commands, in an environment that may fail any of their steps.
Next ==
    \/ \E reset \in BOOLEAN, env \in Envs(clock, CaPoints) : LoadCa(reset, env)
    \/ \E name \in ServerNames, alt_names \in ServerAltNames, env \in Envs(clock, SrvPoints) :
          GenerateServerCert(name, alt_names, env)

Spec == Init /\ [][Next]_vars

\* load_ca alone, in an environment that fails nothing, with a user who
\* removes files and edits the config file between the calls.
NextCa ==
    \/ \E reset \in BOOLEAN : LoadCa(reset, NoFail(clock))
    \/ \E p \in Paths : RemoveFile(p)
    \/ \E c \in ConfFiles : EditConf(c)
    \/ Tick

SpecCa == Init /\ [][NextCa]_vars

-----------------------------------------------------------------------------
(* The library, called as certs.rs: test_create_cert_authorities calls it  *)

\* The Names the calls are made with: every attribute empty or not, and a
\* country of two or of three characters.
LibNames ==
    [country : {"", "AU", "AUS"}, province : {"", "TAS"}, locality : {"", "Hobart"},
     org : {"", "Acme"}, org_unit : {"", "Dev"}, common_name : {"", "*.example.com"}]

\* The subjects certificates are asked for.
LibSubjects ==
    { n \in LibNames : /\ n.country # "AUS" /\ n.locality = "" /\ n.org_unit = ""
                       /\ (n.province = "") = (n.country = "") }

\* The day counts asked for.
ValidDays == {0, 1, 370, 7200}

\* The additional DNS names asked for.
LibAltNames ==
    { <<>>, <<"*.another.com">>, <<"b.example.com", "a.example.com">>,
      <<"*.example.com", "x.com", "x.com">> }

RootKey == [id |-> 1, bits |-> 4096]
IntermediateKey == [id |-> 2, bits |-> 4096]
ServerKey == [id |-> 3, bits |-> 2048]

\* The root and the intermediate of the test, built while the clock reads
\* Instants[t].
TestName == MkName("AU", "TAS", "Hobart", "", "", "ROOT CA")
TestRootName == to_x509_name(TestName).val
TestIntermediateName == to_x509_name(copy(TestName, "Intermediate CA")).val
Still(t) == [t1 |-> t, t2 |-> t, fail |-> FALSE]
TestRoot(t) ==
    create_root_ca(root_ca_params(TestRootName, RootKey, 7200).val, <<Still(t), Still(t)>>).val
TestIntermediate(t) ==
    create_intermediate_ca(
        intermediate_ca_params(TestIntermediateName, IntermediateKey,
                               TestRootName, RootKey, 2500).val,
        TestRoot(t), Still(t)).val

\* A call of the library and what it returned.
Lib(c, r) ==
    /\ call' = c
    /\ ret' = r
    /\ UNCHANGED <<fs, conf, clock, nkeys, last>>

\* name.to_x509_name().
CallToX509Name(n) ==
    Lib([op |-> "to_x509_name", self |-> n], to_x509_name(n))

\* name.copy(common_name).
CallCopy(n, c) ==
    Lib([op |-> "copy", self |-> n, common_name |-> c], copy(n, c))

\* Two calls of create_serial_number, the first when the clock reads
\* Instants[i] and the second when it reads Instants[j].
CallCreateSerialNumber(i, j, checked) ==
    Lib([op |-> "create_serial_number", now |-> <<Instants[i], Instants[j]>>,
         checked |-> checked],
        <<create_serial_number(Instants[i], checked),
          create_serial_number(Instants[j], checked)>>)

\* root_ca_params and create_root_ca; the clock reads Instants[t[1]], ...,
\* Instants[t[4]] at the four calls of valid_from / valid_to.
CallCreateRootCa(n, valid, t, failed) ==
    LET name == to_x509_name(n).val
        params == root_ca_params(name, RootKey, valid)
        envs == << [t1 |-> t[1], t2 |-> t[2], fail |-> failed = 1],
                   [t1 |-> t[3], t2 |-> t[4], fail |-> failed = 2] >>
    IN  Lib([op |-> "create_root_ca", self |-> n, name |-> name, pkey |-> RootKey, valid |-> valid],
            [params |-> params,
             builds |-> create_root_ca_builds(params.val, envs),
             cert |-> create_root_ca(params.val, envs)])

\* intermediate_ca_params and create_intermediate_ca under the test's root.
CallCreateIntermediateCa(n, valid, t, failed) ==
    LET name == to_x509_name(n).val
        root_ca_cert == TestRoot(t[1])
        params == intermediate_ca_params(name, IntermediateKey, TestRootName, RootKey, valid)
    IN  Lib([op |-> "create_intermediate_ca", self |-> n, name |-> name, pkey |-> IntermediateKey,
             root_name |-> TestRootName, root_pkey |-> RootKey, valid |-> valid,
             root_ca_cert |-> root_ca_cert],
            [params |-> params,
             cert |-> create_intermediate_ca(params.val, root_ca_cert,
                         [t1 |-> t[1], t2 |-> t[2], fail |-> failed])])

\* server_cert_params and create_server_cert under the test's intermediate;
\* the clock reads Instants[t[1]] in create_serial_number.  strip: the caller
\* empties the public field sub_alt_names of the params in between.
CallCreateServerCert(n, alt_names, valid, t, checked, strip) ==
    LET name == to_x509_name(n).val
        ctx_cert == TestIntermediate(t[1])
        made == server_cert_params(name, ServerKey, TestIntermediateName, IntermediateKey,
                                   valid, alt_names, Instants[t[1]], checked)
        params == IF IsOk(made) /\ strip
                  THEN Ok([made.val EXCEPT !.sub_alt_names = <<>>])
                  ELSE made
    IN  Lib([op |-> "create_server_cert", self |-> n, name |-> name, pkey |-> ServerKey,
             issuer_name |-> TestIntermediateName, issuer_pkey |-> IntermediateKey,
             valid |-> valid, sub_alt_names |-> alt_names, strip |-> strip,
             now |-> Instants[t[1]], intermediate_cert |-> ctx_cert],
            [params |-> params,
             cert |-> IF IsOk(params)
                      THEN create_server_cert(params.val, ctx_cert,
                              [t1 |-> t[2], t2 |-> t[3], fail |-> FALSE])
                      ELSE params])

\* Clock readings in the order they are taken.
Ordered(t) == \A i \in 1..(Len(t) - 1) : t[i] <= t[i + 1]
Reads == 1..Len(Instants)

\* The readings the root is built at: two in one second, the next second, and
\* one centuries later.
RootReads == {4, 5, 6, 7}

Idle == call.op = "none"

NextLib ==
    \/ Idle /\ \E n \in LibNames : CallToX509Name(n)
    \/ Idle /\ \E n \in LibNames, c \in {"", "Intermediate CA"} : CallCopy(n, c)
    \/ Idle /\ \E i \in Reads, j \in Reads, checked \in BOOLEAN :
          i <= j /\ CallCreateSerialNumber(i, j, checked)
    \/ Idle /\ \E n \in LibSubjects, valid \in ValidDays,
                  t \in RootReads \X RootReads \X RootReads \X RootReads, failed \in 0..2 :
          Ordered(t) /\ CallCreateRootCa(n, valid, t, failed)
    \/ Idle /\ \E n \in LibSubjects, valid \in ValidDays, t \in Reads \X Reads,
                  failed \in BOOLEAN :
          Ordered(t) /\ CallCreateIntermediateCa(n, valid, t, failed)
    \/ Idle /\ \E n \in LibSubjects, alt_names \in LibAltNames, valid \in ValidDays,
                  now \in Reads, t \in Reads \X Reads, checked \in BOOLEAN,
                  strip \in BOOLEAN :
          /\ t[1] = now /\ t[2] \in {now, now + 1}
          /\ CallCreateServerCert(n, alt_names, valid, <<now>> \o t, checked, strip)

SpecLib == Init /\ [][NextLib]_vars

-----------------------------------------------------------------------------
(* Properties                                                              *)

\* The set of the elements of a sequence.
Range(q) == { q[i] : i \in 1..Len(q) }

\* The key identifiers a certificate carries.
SubjectKeyId(cert) == get_ext(cert, "subjectKeyIdentifier")[1].value.hash
AuthorityKeyId(cert) == get_ext(cert, "authorityKeyIdentifier")[1].value.keyid

\* load_ca has just returned Ok.
LoadCaReturned ==
    /\ last.cmd \in {"load_ca(true)", "load_ca(false)"}
    /\ last.out # None
    /\ IsOk(last.out[1])

\* C1: after any sequence of successful load_ca calls, from any subset of
\* the four CA files, the intermediate certificate load_ca returns carries as
\* authority key identifier the subject key identifier of the root
\* certificate now stored, and verifies under the root key now stored.
C1_IntermediateUnderStoredRoot ==
    LoadCaReturned =>
        LET inter == last.out[1].val.cert
            root == from_pem(fs[ca_cert][1])
            root_pkey == private_key_from_pem(fs[ca_key][1])
        IN  /\ exists(fs, ca_cert) /\ IsOk(root)
            /\ exists(fs, ca_key) /\ IsOk(root_pkey)
            /\ AuthorityKeyId(inter) = SubjectKeyId(root.val)
            /\ verifies(inter, public_key(root_pkey.val))

\* C1 witness: load_ca(false) returned after the root pair had been created
\* twice and with the intermediate loaded from its files.
C1_Witness ==
    /\ LoadCaReturned
    /\ last.cmd = "load_ca(false)"
    /\ last.wrote = <<>>
    /\ nkeys >= 4

\* The certificates a library call built, each with the day count asked for.
LibBuilt ==
    CASE call.op = "create_root_ca" ->
             { ret.builds[i].res.val : i \in { k \in 1..Len(ret.builds) : IsOk(ret.builds[k].res) } }
      [] call.op \in {"create_intermediate_ca", "create_server_cert"} ->
             IF IsOk(ret.cert) THEN {ret.cert.val} ELSE {}
      [] OTHER -> {}

\* C2: params of root_ca_params resolve issuer() to the subject, so the draft
\* and the final root certificate carry issuer DN = subject DN and are signed
\* with the subject's own key; params of intermediate_ca_params and
\* server_cert_params resolve issuer() to the issuer they were given, never to
\* the subject.
C2_IssuerResolution ==
    /\ call.op = "create_root_ca" =>
          /\ issuer(ret.params.val) = Entity(call.name, call.pkey)
          /\ \A c \in LibBuilt :
                /\ c.issuer_name = c.subject_name
                /\ c.subject_name = call.name
                /\ c.signature.signer = call.pkey.id
    /\ call.op = "create_intermediate_ca" =>
          /\ issuer(ret.params.val) = Entity(call.root_name, call.root_pkey)
          /\ issuer(ret.params.val) # Entity(call.name, call.pkey)
          /\ \A c \in LibBuilt :
                /\ c.issuer_name = call.root_name
                /\ c.signature.signer = call.root_pkey.id
    /\ (call.op = "create_server_cert" /\ IsOk(ret.params)) =>
          /\ issuer(ret.params.val) = Entity(call.issuer_name, call.issuer_pkey)
          /\ issuer(ret.params.val) # Entity(call.name, call.pkey)
          /\ \A c \in LibBuilt :
                /\ c.issuer_name = call.issuer_name
                /\ c.signature.signer = call.issuer_pkey.id

\* C2 witness: a root whose draft and final certificate were both built.
C2_Witness ==
    /\ call.op = "create_root_ca"
    /\ Len(ret.builds) = 2
    /\ Cardinality(LibBuilt) = 2

\* C3: whatever the clock does during a build, not_after - not_before of the
\* certificate built is exactly the day count asked for.
C3_ValidityWindowExact ==
    \A c \in LibBuilt :
        c.not_after = days_from_now([secs |-> c.not_before], call.valid)

\* The entries a distinguished name is to have for a Name: one for each
\* non-empty attribute, with that attribute's value, in the fixed order.
ExpectedName(n) ==
    LET all == << [nid |-> "C", data |-> n.country],
                  [nid |-> "ST", data |-> n.province],
                  [nid |-> "L", data |-> n.locality],
                  [nid |-> "O", data |-> n.org],
                  [nid |-> "OU", data |-> n.org_unit],
                  [nid |-> "CN", data |-> n.common_name] >>
    IN  SelectSeq(all, LAMBDA e : e.data # "")

\* C4: to_x509_name yields exactly one entry for each non-empty attribute of
\* the Name, with that attribute's value, in the order country, province,
\* locality, organization, organizational unit, common name.
C4_OneEntryPerNonEmptyAttribute ==
    (call.op = "to_x509_name" /\ IsOk(ret)) => ret.val = ExpectedName(call.self)

\* C5: the SAN list of a leaf is the subject common name followed by the
\* caller's names in their order, nothing dropped, reordered or deduplicated.
C5_SanIsCommonNameThenAltNames ==
    (call.op = "create_server_cert" /\ ~call.strip /\ IsOk(ret.cert)) =>
        LET want == <<call.self.common_name>> \o call.sub_alt_names
            san == get_ext(ret.cert.val, "subjectAltName")
        IN  /\ ret.params.val.sub_alt_names = want
            /\ san # None
            /\ san[1].value = [i \in 1..Len(want) |-> [dns |-> want[i]]]

\* C5 witness: a leaf asked for with three more names, one of them the
\* common name and one of them twice.
C5_Witness ==
    /\ call.op = "create_server_cert" /\ ~call.strip /\ IsOk(ret.cert)
    /\ call.sub_alt_names = <<"*.example.com", "x.com", "x.com">>
    /\ call.self.common_name = "*.example.com"

\* An extension as a certificate carries it.
Ext(n, critical, v) == [nid |-> n, critical |-> critical, value |-> v]

CaKeyUsage == <<"digitalSignature", "keyCertSign", "cRLSign">>

\* C6: the extension list of each tier is exactly, in order: root final =
\* [SKI, AKI(keyid only), basicConstraints(critical, CA), keyUsage(
\* digitalSignature, keyCertSign, cRLSign)]; intermediate = [SKI,
\* AKI(keyid + issuer), basicConstraints(CA, not critical, no path length),
\* the same keyUsage]; leaf = [SKI, AKI(keyid + issuer), basicConstraints(not
\* CA, not critical), nsCertType "SSL Server", nsComment, keyUsage(
\* digitalSignature, nonRepudiation, keyEncipherment), extendedKeyUsage(
\* serverAuth)] followed by subjectAltName iff the SAN list is non-empty.
C6_ExtensionsPerTier ==
    /\ (call.op = "create_root_ca" /\ IsOk(ret.cert)) =>
          ret.cert.val.extensions =
            << Ext("subjectKeyIdentifier", FALSE, [hash |-> call.pkey.id]),
               Ext("authorityKeyIdentifier", FALSE,
                   [keyid |-> call.pkey.id, issuer |-> None]),
               Ext("basicConstraints", TRUE, [ca |-> TRUE, pathlen |-> None]),
               Ext("keyUsage", FALSE, CaKeyUsage) >>
    /\ (call.op = "create_intermediate_ca" /\ IsOk(ret.cert)) =>
          ret.cert.val.extensions =
            << Ext("subjectKeyIdentifier", FALSE, [hash |-> call.pkey.id]),
               Ext("authorityKeyIdentifier", FALSE,
                   [keyid |-> call.root_pkey.id,
                    issuer |-> Some([name |-> call.root_ca_cert.issuer_name,
                                     serial |-> call.root_ca_cert.serial])]),
               Ext("basicConstraints", FALSE, [ca |-> TRUE, pathlen |-> None]),
               Ext("keyUsage", FALSE, CaKeyUsage) >>
    /\ (call.op = "create_server_cert" /\ IsOk(ret.cert)) =>
          LET names == ret.params.val.sub_alt_names
              fixed ==
                << Ext("subjectKeyIdentifier", FALSE, [hash |-> call.pkey.id]),
                   Ext("authorityKeyIdentifier", FALSE,
                       [keyid |-> call.issuer_pkey.id,
                        issuer |-> Some([name |-> call.intermediate_cert.issuer_name,
                                         serial |-> call.intermediate_cert.serial])]),
                   Ext("basicConstraints", FALSE, [ca |-> FALSE, pathlen |-> None]),
                   Ext("nsCertType", FALSE, "SSL Server"),
                   Ext("nsComment", FALSE, "Simple CA Generated Server Certificate"),
                   Ext("keyUsage", FALSE,
                       <<"digitalSignature", "nonRepudiation", "keyEncipherment">>),
                   Ext("extendedKeyUsage", FALSE, <<"serverAuth">>) >>
          IN  ret.cert.val.extensions =
                IF names = <<>> THEN fixed
                ELSE Append(fixed, Ext("subjectAltName", FALSE,
                                       [i \in 1..Len(names) |-> [dns |-> names[i]]]))

\* C6 witness: a leaf built from params whose SAN list is empty.
C6_Witness ==
    /\ call.op = "create_server_cert" /\ call.strip /\ IsOk(ret.cert)
    /\ Len(ret.cert.val.extensions) = 7

\* The clock reading now in nanoseconds since the epoch.
Nanos(now) == <<now.secs[1], now.secs[2], now.nanos>>

\* Every root certificate has serial 1000, every intermediate serial 10000.
FixedSerials ==
    /\ call.op = "create_root_ca" =>
          /\ serial(ret.params.val) = <<0, 0, 1000>>
          /\ \A c \in LibBuilt : c.serial = <<0, 0, 1000>>
    /\ call.op = "create_intermediate_ca" =>
          /\ serial(ret.params.val) = <<0, 0, 10000>>
          /\ \A c \in LibBuilt : c.serial = <<0, 0, 10000>>

\* C7 as stated: every root has serial 1000, every intermediate serial 10000,
\* and the serial of any leaf differs from both.
C7_LeafSerialNeverAPolicyConstant ==
    /\ FixedSerials
    /\ call.op = "create_server_cert" =>
          \A c \in LibBuilt : c.serial \notin {<<0, 0, 1000>>, <<0, 0, 10000>>}

\* C7 amended: every root has serial 1000, every intermediate serial 10000,
\* and the serial of a leaf differs from both when the clock reads more than
\* 10000 and less than 2^64 nanoseconds since the epoch at its issuance.
C7_TierSerialsApart ==
    /\ FixedSerials
    /\ (/\ call.op = "create_server_cert"
        /\ LimbLess(<<0, 0, 10000>>, Nanos(call.now))
        /\ LimbLess(Nanos(call.now), TwoTo64)) =>
          \A c \in LibBuilt : c.serial \notin {<<0, 0, 1000>>, <<0, 0, 10000>>}

\* C7 witness: a leaf issued at an ordinary clock reading.
C7_Witness ==
    /\ call.op = "create_server_cert" /\ IsOk(ret.cert)
    /\ call.now = Instants[4]

\* C8 as stated: the serials of two issuances at different clock readings
\* are distinct, and the later reading has the larger serial.
C8_SerialStrictlyIncreasing ==
    (/\ call.op = "create_serial_number"
     /\ call.now[1] # call.now[2]
     /\ IsOk(ret[1]) /\ IsOk(ret[2])) =>
        LimbLess(ret[1].val, ret[2].val)

\* C8 amended: for two different clock readings below 2^64 nanoseconds since
\* the epoch, both serials are computed, they are the readings in
\* nanoseconds, and the later reading has the larger serial.
C8_SerialIncreasingBelowWrap ==
    (/\ call.op = "create_serial_number"
     /\ call.now[1] # call.now[2]
     /\ LimbLess(Nanos(call.now[2]), TwoTo64)) =>
        /\ IsOk(ret[1]) /\ IsOk(ret[2])
        /\ ret[1].val = Nanos(call.now[1])
        /\ ret[2].val = Nanos(call.now[2])
        /\ LimbLess(ret[1].val, ret[2].val)

\* C8 witness: two readings within one second.
C8_Witness ==
    /\ call.op = "create_serial_number"
    /\ call.now = <<Instants[4], Instants[5]>>
    /\ IsOk(ret[1]) /\ IsOk(ret[2])

\* The builds of the last command made with the closure c, as indices of
\* last.built.
BuildsOf(c) == { i \in 1..Len(last.built) : last.built[i].ext.closure = c }

\* A certificate that carries nothing but a subject-key-identifier.
IsDraft(cert) ==
    /\ Len(cert.extensions) = 1
    /\ cert.extensions[1].nid = "subjectKeyIdentifier"

\* The certificates the files hold.
Stored ==
    { from_pem(fs[p][1]).val : p \in { q \in Paths : exists(fs, q) /\ IsOk(from_pem(fs[q][1])) } }

\* C9: a root is issued by a draft build with no context and only a
\* subject-key-identifier, then a final build with the draft as context, whose
\* authority-key-identifier is the draft's and its own subject-key-identifier;
\* a failed draft build ends the command with nothing built after it and no
\* root certificate written; no draft is returned, handed on as an issuer, or
\* stored; an intermediate and a leaf are built in one step.
C9_RootDraftThenFinal ==
    LET b == last.built
    IN  /\ \A i \in BuildsOf("root_draft") :
              /\ i = 1
              /\ DOMAIN b[i].ext = {"closure"}
              /\ IsOk(b[i].res) =>
                    /\ IsDraft(b[i].res.val)
                    /\ i + 1 \in BuildsOf("root_final")
              /\ ~IsOk(b[i].res) =>
                    /\ Len(b) = i
                    /\ last.out = Some(b[i].res)
                    /\ ca_cert \notin Range(last.wrote)
        /\ \A j \in BuildsOf("root_final") :
              /\ j - 1 \in BuildsOf("root_draft")
              /\ IsOk(b[j - 1].res)
              /\ b[j].ext.cert = b[j - 1].res.val
              /\ IsOk(b[j].res) =>
                    /\ ~IsDraft(b[j].res.val)
                    /\ AuthorityKeyId(b[j].res.val) = SubjectKeyId(b[j - 1].res.val)
                    /\ AuthorityKeyId(b[j].res.val) = SubjectKeyId(b[j].res.val)
              /\ ~IsOk(b[j].res) =>
                    /\ last.out = Some(b[j].res)
                    /\ ca_cert \notin Range(last.wrote)
        /\ \A c \in {"root_draft", "root_final", "intermediate", "server"} :
              Cardinality(BuildsOf(c)) <= 1
        /\ \A k \in BuildsOf("intermediate") \cup BuildsOf("server") :
              ~IsDraft(b[k].ext.cert)
        /\ \A cert \in Stored : ~IsDraft(cert)
        /\ LoadCaReturned => ~IsDraft(last.out[1].val.cert)

\* C9 witness: a command that issued a root and wrote it.
C9_Witness ==
    /\ last.cmd = "load_ca(true)"
    /\ BuildsOf("root_draft") = {1} /\ BuildsOf("root_final") = {2}
    /\ IsOk(last.built[2].res)
    /\ ca_cert \in Range(last.wrote)
    /\ fs[ca_cert] = Some(to_pem(last.built[2].res.val))

\* C10: generate_server_cert for a Name whose common_name is empty, once the
\* key is written and the CA loaded, ends with a returned error, and no leaf
\* is built.
C10_MissingCommonNameIsReturnedError ==
    (/\ last.cmd = "generate_server_cert"
     /\ last.name.common_name = ""
     /\ server_key("") \in Range(last.wrote)) =>
        /\ last.out # None
        /\ last.out[1].tag = "Err"
        /\ BuildsOf("server") = {}

\* C11: n.copy(c) is a Name whose common_name is c and whose country,
\* province, locality, org and org_unit are those of n.
C11_CopyChangesOnlyCommonName ==
    call.op = "copy" =>
        /\ ret.common_name = call.common_name
        /\ \A k \in {"country", "province", "locality", "org", "org_unit"} :
              ret[k] = call.self[k]
        /\ DOMAIN ret = DOMAIN call.self

\* C11 witness: a copy of a Name whose six attributes differ from each other
\* and from the new common name.
C11_Witness ==
    /\ call.op = "copy"
    /\ call.self = MkName("AU", "TAS", "Hobart", "Acme", "Dev", "*.example.com")
    /\ call.common_name = "Intermediate CA"
    /\ ret.common_name = "Intermediate CA"

\* The four files of the certificate authority.
CaFiles == {ca_key, ca_cert, intermediate_key, intermediate_cert}

\* What C12 says of one command, from the files before it to those after it.
C12_Command ==
    /\ ((\A p \in CaFiles : exists(fs, p))
        /\ last'.cmd \in {"load_ca(false)", "generate_server_cert"}) =>
          /\ \A p \in CaFiles : fs'[p] = fs[p] /\ p \notin Range(last'.wrote)
          /\ (last'.cmd = "load_ca(false)" /\ IsOk(last'.out[1])) =>
                /\ to_pem(last'.out[1].val.cert) = fs[intermediate_cert][1]
                /\ private_key_to_pem_pkcs8(last'.out[1].val.pkey) = fs[intermediate_key][1]
    /\ (last'.cmd # "none" /\ {ca_key, ca_cert} \cap Range(last'.wrote) # {}) =>
          \/ last'.cmd = "load_ca(true)"
          \/ ~exists(fs, ca_key)
          \/ ~exists(fs, ca_cert)
    /\ (last'.cmd # "none" /\ IsOk(last'.out[1]) /\ ca_cert \in Range(last'.wrote)) =>
          {intermediate_key, intermediate_cert} \subseteq Range(last'.wrote)

\* C12: with the four CA files present, load_ca(false) and
\* generate_server_cert write none of them, and load_ca(false) returns the
\* stored intermediate certificate and key; the root pair is written only on
\* reset or when a root file is missing, and a command that wrote the root
\* pair and returned also wrote the intermediate pair.
C12_CaFilesKeptWhenPresent == [][C12_Command]_vars

\* C12 for the server names that are none of "ca" and "intermediate".
C12_OtherDomains ==
    [][(last'.cmd = "generate_server_cert" =>
            last'.name.common_name \notin {"ca", "intermediate"}) => C12_Command]_vars

\* The key file kp and the certificate file cp, where both are there and
\* readable, hold a key and a certificate of that key.
PairMatches(f, kp, cp) ==
    (/\ exists(f, kp) /\ exists(f, cp)
     /\ IsOk(private_key_from_pem(f[kp][1])) /\ IsOk(from_pem(f[cp][1]))) =>
        from_pem(f[cp][1]).val.pubkey = public_key(private_key_from_pem(f[kp][1]).val)

\* The stored intermediate certificate, where it and the root key are there
\* and readable, is signed by the stored root key.
IntermediateUnderRootKey(f) ==
    (/\ exists(f, ca_key) /\ exists(f, intermediate_cert)
     /\ IsOk(private_key_from_pem(f[ca_key][1]))
     /\ IsOk(from_pem(f[intermediate_cert][1]))) =>
        verifies(from_pem(f[intermediate_cert][1]).val,
                 public_key(private_key_from_pem(f[ca_key][1]).val))

\* The files f hold only pairs that belong together.
StoredPairsMatch(f) ==
    /\ PairMatches(f, ca_key, ca_cert)
    /\ PairMatches(f, intermediate_key, intermediate_cert)
    /\ \A d \in Domains : PairMatches(f, server_key(d), server_cert(d))
    /\ IntermediateUnderRootKey(f)

\* C13: after any commands, aborted ones included, every key file with a
\* companion certificate file holds the key of that certificate, the stored
\* intermediate certificate is signed by the stored root key, and what
\* load_ca returns is a certificate with its own key.
C13_StoredPairsBelongTogether ==
    /\ StoredPairsMatch(fs)
    /\ LoadCaReturned =>
          last.out[1].val.cert.pubkey = public_key(last.out[1].val.pkey)

\* C13 for the commands other than generate_server_cert for "ca" or
\* "intermediate": none of them breaks files whose pairs belong together.
\* (An aborted load_ca(true) does.)
C13_NoCollidingName ==
    [][(/\ StoredPairsMatch(fs)
        /\ last'.cmd = "generate_server_cert" =>
              last'.name.common_name \notin {"ca", "intermediate"})
       => StoredPairsMatch(fs')]_vars

\* C14: every intermediate and leaf certificate the last command issued has
\* as issuer DN the subject DN of the certificate it was issued under, the
\* context of its build.
C14_IssuerIsContextSubject ==
    \A k \in BuildsOf("intermediate") \cup BuildsOf("server") :
        IsOk(last.built[k].res) =>
            last.built[k].res.val.issuer_name = last.built[k].ext.cert.subject_name

====
